---- MODULE Spec2Model ----
(***************************************************************************)
(* Conversation state machine of the Flyfone report bot (src/src/bot.js)   *)
(* over the per-chat external store (state.js, src/unnamed/part_000).      *)
(* Every chat event is one action: the whole handler, from the session     *)
(* load at entry to the last store write and reply.                        *)
(***************************************************************************)
EXTENDS Integers, Sequences, FiniteSets, TLC

\* ------------------------------------------------------------------ bounds
\* Largest number of rows the modelled spreadsheet may hold (the model does
\* not take an append that would exceed it; the code has no such limit).
MaxSheetRows == 2

\* Number of chat events handled in a behaviour in which two chats talk to
\* the bot (a behaviour of one chat alone is not limited).
MaxEvents == 6

\* ------------------------------------------------------------- value sets
Chats == {1, 2}

\* null / undefined / "row not found" of the store and of JS objects
None == "none"

\* free texts a user may type (an email, a padded password)
Texts == {"ann", " pw "}

\* String.prototype.trim on the texts above
Trim(t) ==
  CASE t = " pw " -> "pw"
    [] t = " BUSY " -> "BUSY"
    [] OTHER -> t

\* spreadsheet ids a user may link
SheetIds == {"sid1"}

\* the account the portal knows
PortalAccepts(email, pass) == email = "ann" /\ pass = "pw"

\* ------------------------------------------------------------ the reports
\* a cell the export left empty (undefined in the parsed array, null once
\* the session went through JSON)
Undef == "undefined"

\* One parsed export row: 12 cells, cell k of the code is r[k+1] here.
Row(caller, agent, team, status) ==
  <<caller, "D", "T", "E", "x", agent, team, "callee", status, "9", "5", "hb">>

HeaderRow ==
  <<"Caller", "Call Date", "Call Time", "End Time", "Ext", "Agent", "Team",
    "Callee", "Status", "Duration", "Talktime", "Hangup By">>

\* r[k] of the code
Cell(r, k) == r[k + 1]

\* the reports the portal holds, by id; a session's rows field holds the id
ReportIds == {"R1", "R2", "R0"}

ReportRows(id) ==
  CASE id = "R1" -> <<HeaderRow,
                      Row("100", "Jan Lee", "Sales", "BUSY"),
                      Row("101", "Jane Doe", "Sales", "ANSWER"),
                      Row("102", "Jane Doe", "Sales", "NOANSWER"),
                      Row("103", "Bo", "sales", "ANSWER"),
                      Row("104", "Cy", Undef, "CANCEL")>>
    [] id = "R2" -> <<HeaderRow,
                      Row("200", "Amy", "Support", "ANSWER")>>
    [] id = "R0" -> <<HeaderRow>>

\* rows.slice(1)
DataRows(id) == Tail(ReportRows(id))

\* dates the calendar can deliver, as (year, month, day)
CalDates == {<<2025, 7, 1>>, <<2025, 7, 2>>}

Pad2(n) == IF n < 10 THEN "0" \o ToString(n) ELSE ToString(n)

\* dayjs(date).format('YYYY-MM-DD')
FormatDate(d) == ToString(d[1]) \o "-" \o Pad2(d[2]) \o "-" \o Pad2(d[3])

\* the report the portal exports for from_date = to_date = dateStr
PortalExport(dateStr) ==
  CASE dateStr = "2025-07-01" -> "R1"
    [] dateStr = "2025-07-02" -> "R2"
    [] OTHER -> "R0"

\* String.prototype.toLowerCase on the words in use
Lower(t) ==
  CASE t = "Sales" -> "sales"
    [] t = "Support" -> "support"
    [] t = "CHAT" -> "chat"
    [] t = "TODAY" -> "today"
    [] t = "Jane Doe" -> "jane doe"
    [] t = "Jan Lee" -> "jan lee"
    [] t = "Bo" -> "bo"
    [] t = "Cy" -> "cy"
    [] t = "Amy" -> "amy"
    [] t = "Jan Le" -> "jan le"
    [] t = "Bob" -> "bob"
    [] OTHER -> t

\* Array.from(new Set(xs)): the distinct values in first-seen order
RECURSIVE Distinct(_)
Distinct(xs) ==
  IF xs = <<>> THEN <<>>
  ELSE LET init == Distinct(SubSeq(xs, 1, Len(xs) - 1))
           x == xs[Len(xs)] IN
       IF \E i \in 1..Len(init) : init[i] = x THEN init ELSE Append(init, x)


\* ------------------------------------------------------------------ state
VARIABLES
  session,       \* sessions table: chat -> session object (exists=FALSE: no row)
  flyfoneCreds,  \* flyfone_creds table: chat -> {email, pass} or no row
  cookies,       \* cookies table: chat -> persisted cookie jar or no row
  portalValid,   \* portal side: is the login held by the chat's persisted jar still valid
  refreshToken,  \* user_tokens table: chat -> refresh token or no row
  sheetMap,      \* sheet_map table: chat -> linked sheet id or no row
  sheetData,     \* the spreadsheets: sheet id -> sequence of written blocks
  last,          \* the event handled last: what it replied, requested, raised
  chats,         \* the chats that talk to the bot in this behaviour
  budget,        \* chat events still to be handled (-1: not limited)
  queue,         \* updates fetched by the polling loop and not yet handled
  running,       \* the handler in progress, its position and its locals
  inflight       \* store deletions issued by /logout and not yet applied

vars == <<session, flyfoneCreds, cookies, portalValid, refreshToken, sheetMap,
          sheetData, last, chats, budget, queue, running, inflight>>

\* the polling loop's side, used where handlers are followed await by await
dispatch == <<queue, running, inflight>>

\* one more chat event is taken from the front end
Tick ==
  /\ budget # 0
  /\ budget' = IF budget > 0 THEN budget - 1 ELSE budget
  /\ chats' = chats
  /\ UNCHANGED dispatch

store == <<session, flyfoneCreds, cookies, portalValid, refreshToken, sheetMap, sheetData>>

\* ---------------------------------------------------------------- session
\* getSession returning null
NoSession ==
  [exists |-> FALSE, step |-> None, mode |-> None, connectSheet |-> None,
   sheetId |-> None, email |-> None, rows |-> None, dateStr |-> None,
   selectedTeam |-> None]

\* the object {} (every key absent)
EmptyObj == [NoSession EXCEPT !.exists = TRUE]

\* `await getSession(chatId) || {}` and `...await getSession(chatId)`
OrEmpty(s) == IF s.exists THEN s ELSE EmptyObj

NoCreds == [exists |-> FALSE, email |-> None, pass |-> None]

\* no handler in progress
Idle ==
  [chat |-> 0, op |-> None, arg |-> <<>>, pc |-> "idle", sess |-> NoSession,
   rows |-> None, email |-> None, pass |-> None, jar |-> None]

\* ------------------------------------------------------- the last event
\* One outbound message: its kind, the text it names (a team, an agent, a
\* date, an error), the date and a number it reports, and the entries it lists.
Msg(kind) == [kind |-> kind, text |-> None, date |-> None, n |-> 0, list |-> <<>>]
MsgT(kind, text) == [Msg(kind) EXCEPT !.text = text]
MsgL(kind, text, n, list) == [Msg(kind) EXCEPT !.text = text, !.n = n, !.list = list]
MsgD(kind, text, date, n, list) == [MsgL(kind, text, n, list) EXCEPT !.date = date]

\* no login form was posted
NoPost == [sent |-> FALSE, csrf_webcall |-> None, username |-> None, password |-> None]

\* The event handled last: which chat and handler, the messages sent, the
\* portal requests issued, whether the handler threw, whether the body of
\* the handler (behind the session guard, if any) was entered, how its
\* call of the portal client ended (None: no call), the CSRF token the login
\* page yielded and the login form posted, and whether it persisted a
\* session built from a row that was no longer the stored one.
Ev(c, op, arg, replies, reqs, raised, body) ==
  [chat |-> c, op |-> op, arg |-> arg, replies |-> replies, reqs |-> reqs,
   raised |-> raised, body |-> body, login |-> None, page |-> None, post |-> NoPost,
   stale |-> FALSE]

\* ... of a handler that called ensureLoggedIn or downloadFlyfoneReport with
\* result r: "ok", or the message of the error it threw
EvL(c, op, arg, replies, r, raised) ==
  [Ev(c, op, arg, replies, r.reqs, raised, TRUE) EXCEPT
     !.login = IF r.ok THEN "ok" ELSE r.err, !.page = r.page, !.post = r.post]

ReplyKinds(e) == {e.replies[i].kind : i \in 1..Len(e.replies)}

\* ------------------------------------------------------------------- Init
InitStore ==
  /\ session = [c \in Chats |-> NoSession]
  /\ flyfoneCreds = [c \in Chats |-> NoCreds]
  /\ cookies = [c \in Chats |-> None]
  /\ portalValid = [c \in Chats |-> FALSE]
  /\ refreshToken = [c \in Chats |-> None]
  /\ sheetMap = [c \in Chats |-> None]
  /\ sheetData = [s \in SheetIds |-> <<>>]
  /\ last = Ev(0, "init", <<>>, <<>>, <<>>, FALSE, FALSE)
  /\ queue = <<>>
  /\ running = Idle
  /\ inflight = {}

\* one chat, any number of events
Init ==
  /\ InitStore
  /\ chats = {1}
  /\ budget = -1

\* two chats, MaxEvents events between them
InitTwo ==
  /\ InitStore
  /\ chats = Chats
  /\ budget = MaxEvents

\* --------------------------------------------------- Portal Session Client
\* What the portal and the network do during one ensureLoggedIn.
LoginNets == {"ok", "loginPageFail", "noCsrf", "postFail", "saveCookiesFail"}

\* a variant that persists the jar before it looks at the answer
WrongCredentials_SavesCookies(c) ==
  [ok |-> FALSE, err |-> "Incorrect email or password",
   reqs |-> <<"GET /dashboard", "GET /login", "POST /login">>,
   jar |-> "jar", valid |-> portalValid[c]]

\* step 4 of ensureLoggedIn: the POST answered 200 with 'password is
\* incorrect'; it throws before saveCookies
WrongCredentials(c) ==
  [ok |-> FALSE, err |-> "Incorrect email or password",
   reqs |-> <<"GET /dashboard", "GET /login", "POST /login">>,
   jar |-> cookies[c], valid |-> portalValid[c]]

\* a variant in which the probe is answered from any chat's cookies
DashboardProbe_AnyChat(c) == \E x \in Chats : cookies[x] # None /\ portalValid[x]

\* step 1 of ensureLoggedIn: GET /dashboard answers 200 with the cookies
\* loadCookies(chatId) put in the jar, if the portal still honours them
DashboardProbe(c) == cookies[c] # None /\ portalValid[c]

\* a variant that returns after the probe and starts a login all the same
ProbeSucceeded_LogsInAgain(c) ==
  [ok |-> TRUE, err |-> None, reqs |-> <<"GET /dashboard", "GET /login", "POST /login">>,
   jar |-> cookies[c], valid |-> portalValid[c]]

\* the return of step 1: nothing else is requested, nothing is saved
ProbeSucceeded(c) ==
  [ok |-> TRUE, err |-> None, reqs |-> <<"GET /dashboard">>,
   jar |-> cookies[c], valid |-> portalValid[c]]

\* a variant that persists the jar before it throws
LoginThrows_SavesCookies(c, err, reqs) ==
  [ok |-> FALSE, err |-> err, reqs |-> reqs, jar |-> "jar", valid |-> portalValid[c]]

\* steps 2, 3 and 5 of ensureLoggedIn rethrow what failed; the persisted
\* cookies stay as they were
LoginThrows(c, err, reqs) ==
  [ok |-> FALSE, err |-> err, reqs |-> reqs, jar |-> cookies[c], valid |-> portalValid[c]]

\* match[1] of /name="csrf_webcall" value="([^"]+)"/ on the login page the
\* portal serves to the chat's client
CsrfToken(c) == "csrf-" \o ToString(c)

\* a variant that posts the form without the token
LoginPost_NoToken(csrf, email, password) ==
  [sent |-> TRUE, csrf_webcall |-> "", username |-> email, password |-> password]

\* new URLSearchParams({ csrf_webcall: csrf, username: email, password })
LoginPost(csrf, email, password) ==
  [sent |-> TRUE, csrf_webcall |-> csrf, username |-> email, password |-> password]

\* ensureLoggedIn(chatId, email, password, client, jar): the result, the
\* requests issued, and the persisted cookies / portal-side login afterwards.
EnsureLoggedIn(c, email, pass, net) ==
  LET r == IF DashboardProbe(c) THEN ProbeSucceeded(c)
           ELSE IF net = "loginPageFail"
           THEN LoginThrows(c, "login page", <<"GET /dashboard", "GET /login">>)
           ELSE IF net = "noCsrf"
           THEN LoginThrows(c, "CSRF token not found", <<"GET /dashboard", "GET /login">>)
           ELSE IF net = "postFail"
           THEN LoginThrows(c, "login post", <<"GET /dashboard", "GET /login", "POST /login">>)
           ELSE IF ~PortalAccepts(email, pass) THEN WrongCredentials(c)
           ELSE IF net = "saveCookiesFail"
           THEN LoginThrows(c, "save cookies", <<"GET /dashboard", "GET /login", "POST /login">>)
           ELSE [ok |-> TRUE, err |-> None,
                 reqs |-> <<"GET /dashboard", "GET /login", "POST /login">>,
                 jar |-> "jar", valid |-> TRUE]
      \* step 2 reached, the page loaded and the marker matched
      found == ~DashboardProbe(c) /\ net \notin {"loginPageFail", "noCsrf"}
      csrf == IF found THEN CsrfToken(c) ELSE None
  IN r @@ [page |-> csrf,
           post |-> IF found THEN LoginPost(csrf, email, pass) ELSE NoPost]

\* ------------------------------------------------------------- /start
CmdStart(c) ==
  /\ Tick
  /\ IF flyfoneCreds[c].exists
     THEN /\ last' = Ev(c, "start", <<>>, <<Msg("mode_prompt")>>, <<>>, FALSE, TRUE)
          /\ UNCHANGED store
     ELSE /\ session' = [session EXCEPT ![c] = [EmptyObj EXCEPT !.step = "await_email"]]
          /\ flyfoneCreds' = [flyfoneCreds EXCEPT ![c] = NoCreds]
          /\ last' = Ev(c, "start", <<>>, <<Msg("ask_email")>>, <<>>, FALSE, TRUE)
          /\ UNCHANGED <<cookies, portalValid, refreshToken, sheetMap, sheetData>>

\* ------------------------------------------------ free text (credentials)
\* a variant that loses the password
SaveFlyfoneCreds_NoPass(email, pass) == [exists |-> TRUE, email |-> email, pass |-> None]

\* the row saveFlyfoneCreds upserts
SaveFlyfoneCreds(email, pass) == [exists |-> TRUE, email |-> email, pass |-> pass]

\* a variant that records the email and asks for it again
AwaitEmailStep_Stays(sess, text) == [sess EXCEPT !.email = Trim(text)]

\* the await_email step: the trimmed text becomes the email
AwaitEmailStep(sess, text) == [sess EXCEPT !.email = Trim(text), !.step = "await_pass"]

\* a variant that keeps the password in the session object
AwaitPassStep_KeepsPass(sess, pass) == [sess EXCEPT !.step = "await_mode", !.email = pass]

\* the await_pass step after a login that succeeded: sess.step = 'await_mode';
\* the password goes to saveFlyfoneCreds alone
AwaitPassStep(sess, pass) == [sess EXCEPT !.step = "await_mode"]

MsgText(c, text) ==
  /\ Tick
  /\ LET sess == session[c] IN
     IF ~sess.exists
     THEN /\ last' = Ev(c, "text", <<text>>, <<>>, <<>>, FALSE, TRUE)
          /\ UNCHANGED store
     ELSE IF sess.step = "await_email"
     THEN /\ session' = [session EXCEPT ![c] = AwaitEmailStep(sess, text)]
          /\ last' = Ev(c, "text", <<text>>, <<Msg("ask_password")>>, <<>>, FALSE, TRUE)
          /\ UNCHANGED <<flyfoneCreds, cookies, portalValid, refreshToken, sheetMap, sheetData>>
     ELSE IF sess.step = "await_pass"
     THEN \E net \in LoginNets :
          LET pass == Trim(text)
              r == EnsureLoggedIn(c, sess.email, pass, net) IN
          /\ cookies' = [cookies EXCEPT ![c] = r.jar]
          /\ portalValid' = [portalValid EXCEPT ![c] = r.valid]
          /\ IF r.ok
             THEN /\ flyfoneCreds' = [flyfoneCreds EXCEPT ![c] = SaveFlyfoneCreds(sess.email, pass)]
                  /\ session' = [session EXCEPT ![c] = AwaitPassStep(sess, pass)]
                  /\ last' = EvL(c, "text", <<text>>, <<Msg("login_ok_mode_prompt")>>, r, FALSE)
             ELSE /\ flyfoneCreds' = flyfoneCreds
                  /\ session' = [session EXCEPT ![c] = [sess EXCEPT !.step = "await_email"]]
                  /\ last' = EvL(c, "text", <<text>>, <<Msg("credentials_invalid")>>, r, FALSE)
          /\ UNCHANGED <<refreshToken, sheetMap, sheetData>>
     ELSE /\ last' = Ev(c, "text", <<text>>, <<>>, <<>>, FALSE, TRUE)
          /\ UNCHANGED store

\* --------------------------------------------------------- session guard
\* a variant that reports the expiry and stops there
GuardRestart_NoPrompt(c, op, arg) ==
  /\ session' = [session EXCEPT ![c] = NoSession]
  /\ last' = Ev(c, op, arg, <<Msg("session_expired")>>, <<>>, FALSE, FALSE)
  /\ UNCHANGED <<flyfoneCreds, cookies, portalValid, refreshToken, sheetMap, sheetData>>

\* withSessionGuard, the branch taken when getSession returns null: two
\* messages, deleteSession, and the wrapped handler is not called.
GuardRestart(c, op, arg) ==
  /\ session' = [session EXCEPT ![c] = NoSession]
  /\ last' = Ev(c, op, arg, <<Msg("session_expired"), Msg("mode_prompt")>>, <<>>, FALSE, FALSE)
  /\ UNCHANGED <<flyfoneCreds, cookies, portalValid, refreshToken, sheetMap, sheetData>>

\* the session row of a chat is gone from the store (getSession finds no row)
SessionExpires(c) ==
  /\ session[c].exists
  /\ session' = [session EXCEPT ![c] = NoSession]
  /\ last' = Ev(c, "session_expires", <<>>, <<>>, <<>>, FALSE, FALSE)
  /\ UNCHANGED <<flyfoneCreds, cookies, portalValid, refreshToken, sheetMap, sheetData, chats, budget,
                 dispatch>>

\* the portal ends the login held by the chat's cookies
PortalSessionExpires(c) ==
  /\ cookies[c] # None /\ portalValid[c]
  /\ portalValid' = [portalValid EXCEPT ![c] = FALSE]
  /\ last' = Ev(c, "portal_expires", <<>>, <<>>, <<>>, FALSE, FALSE)
  /\ UNCHANGED <<session, flyfoneCreds, cookies, refreshToken, sheetMap, sheetData, chats, budget,
                 dispatch>>

\* ------------------------------------------------------------ mode choice
\* { ...await getSession(chatId), connectSheet: true, mode: 'sheet', step: 'await_sheet_url' }
SheetModeSession(prev) ==
  [OrEmpty(prev) EXCEPT !.connectSheet = "true", !.mode = "sheet", !.step = "await_sheet_url"]

\* a variant that forgets the mode
ChatModeSession_NoMode(prev) == [EmptyObj EXCEPT !.connectSheet = "false"]

\* { connectSheet: false, mode: 'chat' }
ChatModeSession(prev) == [EmptyObj EXCEPT !.connectSheet = "false", !.mode = "chat"]

CbLinkSheetYes(c) ==
  /\ Tick
  /\ session' = [session EXCEPT ![c] = SheetModeSession(session[c])]
  /\ last' = Ev(c, "linkSheet:yes", <<>>, <<Msg("send_sheet_url")>>, <<>>, FALSE, TRUE)
  /\ UNCHANGED <<flyfoneCreds, cookies, portalValid, refreshToken, sheetMap, sheetData>>

CbLinkSheetNo(c) ==
  /\ Tick
  /\ session' = [session EXCEPT ![c] = ChatModeSession(session[c])]
  /\ last' = Ev(c, "linkSheet:no", <<>>, <<Msg("chat_mode_enabled")>>, <<>>, FALSE, TRUE)
  /\ UNCHANGED <<flyfoneCreds, cookies, portalValid, refreshToken, sheetMap, sheetData>>

\* /mode with its argument words (<<>>: none)
ModeArgs == {<<>>, <<"CHAT">>, <<"sheet">>, <<"x">>}

CmdMode(c, args) ==
  /\ Tick
  /\ LET creds == flyfoneCreds[c]
         mode == IF Len(args) > 0 THEN Lower(args[1]) ELSE None
         done(sess, msgs) ==
           /\ session' = [session EXCEPT ![c] = sess]
           /\ last' = Ev(c, "mode", args, msgs, <<>>, FALSE, TRUE)
     IN
     /\ IF Len(args) > 0
        THEN IF ~creds.exists THEN done(session[c], <<Msg("not_logged_in")>>)
             ELSE IF mode = "chat"
             THEN done([OrEmpty(session[c]) EXCEPT !.mode = "chat", !.connectSheet = "false"],
                       <<Msg("chat_mode_enabled")>>)
             ELSE IF mode = "sheet"
             THEN done([OrEmpty(session[c]) EXCEPT !.mode = "sheet", !.connectSheet = "true"],
                       <<Msg("sheet_mode_enabled")>>)
             ELSE done(session[c], <<Msg("invalid_mode")>>)
        ELSE IF ~creds.exists THEN done(session[c], <<Msg("not_logged_in")>>)
             ELSE done(session[c], <<Msg("choose_mode")>>)
     /\ UNCHANGED <<flyfoneCreds, cookies, portalValid, refreshToken, sheetMap, sheetData>>

\* ---------------------------------------------------------------- /logout
\* Promise.all([...]) starts the four imported deletions and then throws on
\* deleteSheet, which bot.js never imports: the sheet link stays and no
\* confirmation is sent.
CmdLogout(c) ==
  /\ Tick
  /\ flyfoneCreds' = [flyfoneCreds EXCEPT ![c] = NoCreds]
  /\ refreshToken' = [refreshToken EXCEPT ![c] = None]
  /\ session' = [session EXCEPT ![c] = NoSession]
  /\ cookies' = [cookies EXCEPT ![c] = None]
  /\ portalValid' = [portalValid EXCEPT ![c] = FALSE]
  /\ last' = Ev(c, "logout", <<>>, <<>>, <<>>, TRUE, TRUE)
  /\ UNCHANGED <<sheetMap, sheetData>>

\* ----------------------------------------------------------------- /sheet
\* the word after /sheet
SheetInputs == {"https://docs.google.com/spreadsheets/d/sid1/edit", "bad!id"}

\* the /d/<id> match, else the input itself if it is a bare id, else null
ParseSheetId(input) ==
  CASE input = "https://docs.google.com/spreadsheets/d/sid1/edit" -> "sid1"
    [] input \in SheetIds -> input
    [] OTHER -> None

\* creds?.refresh_token where creds is what getRefreshToken returned: the
\* token string or null, neither of which has that property
RefreshTokenProp(creds) == None

CmdSheet(c, input) ==
  /\ Tick
  /\ LET sess == OrEmpty(session[c])
         sheetId == ParseSheetId(input)
         creds == refreshToken[c] IN
     IF sess.connectSheet # "true"
     THEN /\ last' = Ev(c, "sheet", <<input>>, <<Msg("not_in_sheet_mode")>>, <<>>, FALSE, TRUE)
          /\ UNCHANGED store
     ELSE IF sheetId = None
     THEN /\ last' = Ev(c, "sheet", <<input>>, <<Msg("sheet_usage")>>, <<>>, FALSE, TRUE)
          /\ UNCHANGED store
     ELSE /\ session' = [session EXCEPT ![c] = [sess EXCEPT !.sheetId = sheetId]]
          /\ sheetMap' = [sheetMap EXCEPT ![c] = sheetId]
          /\ last' = Ev(c, "sheet", <<input>>,
                        IF RefreshTokenProp(creds) # None
                        THEN <<Msg("sheet_linked")>> ELSE <<Msg("authorize_prompt")>>,
                        <<>>, FALSE, TRUE)
          /\ UNCHANGED <<flyfoneCreds, cookies, portalValid, refreshToken, sheetData>>

\* ----------------------------------------------------------------- /fetch
\* a variant in which both flows set the chat flow's step
BeginFlow_ChatStep(c, step) ==
  IF ~session[c].exists
  THEN /\ last' = Ev(c, "fetch", <<>>, <<>>, <<>>, TRUE, TRUE)
       /\ UNCHANGED store
  ELSE /\ session' = [session EXCEPT ![c] = [session[c] EXCEPT !.step = "chat_await_date"]]
       /\ last' = Ev(c, "fetch", <<>>, <<Msg("choose_date")>>, <<>>, FALSE, TRUE)
       /\ UNCHANGED <<flyfoneCreds, cookies, portalValid, refreshToken, sheetMap, sheetData>>

\* beginSheetFlow / beginChatFlow after the checks of /fetch passed: both
\* assign sess.step on what getSession returned, null included
BeginFlow(c, step) ==
  IF ~session[c].exists
  THEN /\ last' = Ev(c, "fetch", <<>>, <<>>, <<>>, TRUE, TRUE)
       /\ UNCHANGED store
  ELSE /\ session' = [session EXCEPT ![c] = [session[c] EXCEPT !.step = step]]
       /\ last' = Ev(c, "fetch", <<>>, <<Msg("choose_date")>>, <<>>, FALSE, TRUE)
       /\ UNCHANGED <<flyfoneCreds, cookies, portalValid, refreshToken, sheetMap, sheetData>>

\* sess.mode || (linkedSheet ? 'sheet' : null)
FetchMode(c) ==
  IF OrEmpty(session[c]).mode # None THEN OrEmpty(session[c]).mode
  ELSE IF sheetMap[c] # None THEN "sheet" ELSE None

\* the checks of /fetch: the refusal it replies, or the flow it begins
FetchDecision(c) ==
  IF ~flyfoneCreds[c].exists THEN "not_logged_in"
  ELSE IF FetchMode(c) = None THEN "no_mode_selected"
  ELSE IF FetchMode(c) = "sheet"
  THEN IF sheetMap[c] = None THEN "missing_sheet" ELSE "sheet_await_date"
  ELSE "chat_await_date"

CmdFetch(c) ==
  /\ Tick
  /\ IF FetchDecision(c) \in {"sheet_await_date", "chat_await_date"}
     THEN BeginFlow(c, FetchDecision(c))
     ELSE /\ last' = Ev(c, "fetch", <<>>, <<Msg(FetchDecision(c))>>, <<>>, FALSE, TRUE)
          /\ UNCHANGED store

\* ---------------------------------------------------------- report download
\* what the export request answers
ExportNets == {"ok", "http500"}

\* what the portal does during one download: a login behaviour and, when
\* the login part does not fail by it, an export answer
DownloadNets == {<<"ok", exp>> : exp \in ExportNets} \cup {<<"noCsrf", "ok">>}

\* downloadFlyfoneReport after its ensureLoggedIn ended with r: the export
\* GET and the parse
ExportReport(r, dateStr, exp) ==
  IF ~r.ok THEN [r EXCEPT !.ok = FALSE] @@ [rows |-> None]
  ELSE IF exp = "http500"
  THEN [r EXCEPT !.ok = FALSE, !.err = "Request failed with status code 500",
                 !.reqs = Append(r.reqs, "GET /api/export/voice")] @@ [rows |-> None]
  ELSE [r EXCEPT !.reqs = Append(r.reqs, "GET /api/export/voice")]
         @@ [rows |-> PortalExport(dateStr)]

\* downloadFlyfoneReport: ensureLoggedIn, then the export GET and the parse
DownloadFlyfoneReport(c, dateStr, email, pass, net, exp) ==
  ExportReport(EnsureLoggedIn(c, email, pass, net), dateStr, exp)

\* rows.slice(1).map(r => r[6] || '') made distinct: the chat team menu
ChatTeams(id) ==
  Distinct([i \in 1..Len(DataRows(id)) |->
              IF Cell(DataRows(id)[i], 6) = Undef THEN "" ELSE Cell(DataRows(id)[i], 6)])

\* rows.slice(1).map(r => r[6]?.toString() || '').filter(Boolean)
RawTeams(id) ==
  LET named == SelectSeq(DataRows(id), LAMBDA r : Cell(r, 6) # Undef /\ Cell(r, 6) # "")
  IN [i \in 1..Len(named) |-> Cell(named[i], 6)]

\* the sheet team menu: the lowercased team keys, distinct
SheetTeamKeys(id) == Distinct([i \in 1..Len(RawTeams(id)) |-> Lower(RawTeams(id)[i])])

\* startFetchFlow(ctx, email, pass, sheetId, dateStr), entered from the sheet
\* calendar handler after its "Exporting" message
StartFetchFlow(c, d, email, pass, sheetId, net, exp) ==
  LET ds == FormatDate(d)
      r == DownloadFlyfoneReport(c, ds, email, pass, net, exp)
      saved == [OrEmpty(session[c]) EXCEPT !.rows = r.rows, !.dateStr = ds, !.sheetId = sheetId]
      first == MsgT("exporting", ds)
  IN
  /\ cookies' = [cookies EXCEPT ![c] = r.jar]
  /\ portalValid' = [portalValid EXCEPT ![c] = r.valid]
  /\ UNCHANGED <<flyfoneCreds, refreshToken, sheetMap, sheetData>>
  /\ IF ~r.ok
     THEN /\ session' = session
          /\ last' = EvL(c, "calendar", <<d>>,
                         <<first, IF r.err = "Incorrect email or password"
                                  THEN Msg("incorrect_fetch_again")
                                  ELSE MsgT("error", r.err)>>,
                         r, FALSE)
     ELSE IF sheetId # None
     THEN /\ session' = [session EXCEPT ![c] = saved]
          /\ last' = EvL(c, "calendar", <<d>>,
                         <<first, MsgL("sheet_team_menu", None, 0, SheetTeamKeys(r.rows))>>,
                         r, FALSE)
     ELSE IF Distinct(RawTeams(r.rows)) = <<>>
     THEN /\ session' = session
          /\ last' = EvL(c, "calendar", <<d>>, <<first, MsgT("no_teams_found", ds)>>, r, FALSE)
     ELSE /\ session' = [session EXCEPT ![c] = saved]
          /\ last' = EvL(c, "calendar", <<d>>,
                         <<first, MsgL("sheet_team_menu", None, 0, Distinct(RawTeams(r.rows)))>>,
                         r, FALSE)

\* a variant that stores the rows and leaves the date out
WithReport_NoDate(sess, rows, ds) == [sess EXCEPT !.rows = rows]

\* { ...sess, rows, dateStr }
WithReport(sess, rows, ds) == [sess EXCEPT !.rows = rows, !.dateStr = ds]

\* the chat calendar handler: the download is not inside a try
ChatCalendar(c, d, net, exp) ==
  LET sess == session[c]
      ds == FormatDate(d)
      creds == flyfoneCreds[c]
      r == DownloadFlyfoneReport(c, ds, creds.email, creds.pass, net, exp)
      first == MsgT("fetching", ds)
  IN
  IF ~creds.exists
  THEN /\ last' = Ev(c, "calendar", <<d>>, <<first>>, <<>>, TRUE, TRUE)
       /\ UNCHANGED store
  ELSE /\ cookies' = [cookies EXCEPT ![c] = r.jar]
       /\ portalValid' = [portalValid EXCEPT ![c] = r.valid]
       /\ UNCHANGED <<flyfoneCreds, refreshToken, sheetMap, sheetData>>
       /\ IF ~r.ok
          THEN /\ session' = session
               /\ last' = EvL(c, "calendar", <<d>>, <<first>>, r, TRUE)
          ELSE /\ session' = [session EXCEPT ![c] = WithReport(sess, r.rows, ds)]
               /\ last' = EvL(c, "calendar", <<d>>,
                              <<first, MsgL("chat_team_menu", None, 0, ChatTeams(r.rows))>>,
                              r, FALSE)

\* the predicate of the first bot.filter: session?.step === 'sheet_await_date'
SheetCalendarFilter(c) == session[c].step = "sheet_await_date"

\* a variant that lets every selection of a chat with a session through
ChatCalendarFilter_AnyStep(c) == session[c].exists

\* the predicate of the second bot.filter: session?.step === 'chat_await_date'
ChatCalendarFilter(c) == session[c].step = "chat_await_date"

\* A date-picker selection: the two bot.filter handlers in registration
\* order; when neither predicate holds no handler runs.
CalendarSelect(c, d) ==
  /\ Tick
  /\ IF SheetCalendarFilter(c)
     THEN IF ~flyfoneCreds[c].exists
          THEN /\ last' = Ev(c, "calendar", <<d>>, <<>>, <<>>, TRUE, TRUE)
               /\ UNCHANGED store
          ELSE \E dn \in DownloadNets :
                 StartFetchFlow(c, d, flyfoneCreds[c].email, flyfoneCreds[c].pass,
                                sheetMap[c], dn[1], dn[2])
     ELSE IF ChatCalendarFilter(c)
     THEN \E dn \in DownloadNets : ChatCalendar(c, d, dn[1], dn[2])
     ELSE /\ last' = Ev(c, "calendar", <<>>, <<>>, <<>>, FALSE, FALSE)
          /\ UNCHANGED store

\* ------------------------------------------------------- chat-mode browsing
\* team and agent values carried by button payloads
TeamButtons == {"Sales"}
AgentButtons == {"Jane Doe", "Amy"}

\* rows.slice(1).filter(r => r[6] === team)
TeamRows(id, team) == SelectSeq(DataRows(id), LAMBDA r : Cell(r, 6) = team)

\* a variant that selects by agent alone
AgentRows_AnyTeam(id, team, agent) ==
  SelectSeq(DataRows(id), LAMBDA r : Cell(r, 5) = agent)

\* rows.slice(1).filter(r => r[6] === team && r[5] === agent)
AgentRows(id, team, agent) ==
  SelectSeq(DataRows(id), LAMBDA r : Cell(r, 6) = team /\ Cell(r, 5) = agent)

\* Array.from(new Set(rows.slice(1).filter(r => r[6] === team).map(r => r[5])))
AgentsOf(id, team) ==
  Distinct([i \in 1..Len(TeamRows(id, team)) |-> Cell(TeamRows(id, team)[i], 5)])

\* a variant that sets a key to 1 whenever it meets it
RECURSIVE CountByStatus_Resets(_)
CountByStatus_Resets(rows) ==
  IF rows = <<>> THEN <<>>
  ELSE LET acc == CountByStatus_Resets(SubSeq(rows, 1, Len(rows) - 1))
           st == Trim(Cell(rows[Len(rows)], 8)) IN
       IF st \in DOMAIN acc THEN [acc EXCEPT ![st] = 1]
       ELSE acc @@ (st :> 1)

\* filtered.reduce((acc, r) => { const st = r[8]?.toString().trim();
\* acc[st] = (acc[st] || 0) + 1 }, {}): the object built, as a function from
\* the status keys seen to their counts (an empty cell counts under the key
\* "undefined")
RECURSIVE CountByStatus(_)
CountByStatus(rows) ==
  IF rows = <<>> THEN <<>>
  ELSE LET acc == CountByStatus(SubSeq(rows, 1, Len(rows) - 1))
           st == Trim(Cell(rows[Len(rows)], 8)) IN
       IF st \in DOMAIN acc THEN [acc EXCEPT ![st] = @ + 1]
       ELSE acc @@ (st :> 1)

\* counts.KEY || 0
CountOr0(counts, key) == IF key \in DOMAIN counts THEN counts[key] ELSE 0

\* the stats message of chat_agent and of /agent
StatsMsg(agent, dateStr, filtered) ==
  LET counts == CountByStatus(filtered) IN
  MsgD("agent_stats", agent, dateStr, Len(filtered),
       <<CountOr0(counts, "ANSWER"), CountOr0(counts, "CANCEL"), CountOr0(counts, "BUSY")>>)

CbChatTeam(c, team) ==
  /\ Tick
  /\ IF ~session[c].exists THEN GuardRestart(c, "chat_team", <<team>>)
     ELSE LET rows == session[c].rows IN
          /\ session' = [session EXCEPT ![c] = [session[c] EXCEPT !.selectedTeam = team]]
          /\ UNCHANGED <<flyfoneCreds, cookies, portalValid, refreshToken, sheetMap, sheetData>>
          /\ IF rows = None
             THEN last' = Ev(c, "chat_team", <<team>>, <<>>, <<>>, TRUE, TRUE)
             ELSE last' = Ev(c, "chat_team", <<team>>,
                             <<MsgL("agent_menu", team, 0, AgentsOf(rows, team))>>,
                             <<>>, FALSE, TRUE)

CbChatAgent(c, team, agent) ==
  /\ Tick
  /\ IF ~session[c].exists THEN GuardRestart(c, "chat_agent", <<team, agent>>)
     ELSE LET rows == session[c].rows IN
          /\ UNCHANGED store
          /\ IF rows = None
             THEN last' = Ev(c, "chat_agent", <<team, agent>>, <<>>, <<>>, TRUE, TRUE)
             ELSE last' = Ev(c, "chat_agent", <<team, agent>>,
                             <<StatsMsg(agent, session[c].dateStr, AgentRows(rows, team, agent))>>,
                             <<>>, FALSE, TRUE)

CmdTeam(c) ==
  /\ Tick
  /\ IF ~session[c].exists THEN GuardRestart(c, "team_cmd", <<>>)
     ELSE LET sess == session[c] IN
          /\ UNCHANGED store
          /\ IF sess.mode # "chat" \/ sess.rows = None
             THEN last' = Ev(c, "team_cmd", <<>>, <<Msg("only_chat_mode_after_date")>>,
                             <<>>, FALSE, TRUE)
             ELSE IF ChatTeams(sess.rows) = <<>>
             THEN last' = Ev(c, "team_cmd", <<>>, <<Msg("no_teams_for_date")>>, <<>>, FALSE, TRUE)
             ELSE last' = Ev(c, "team_cmd", <<>>,
                             <<MsgL("chat_team_menu", None, 0, ChatTeams(sess.rows))>>,
                             <<>>, FALSE, TRUE)

\* ------------------------------------------------------------------ /agent
\* the characters of the lowercase strings that are compared by edit distance
Chars(t) ==
  CASE t = "jane doe" -> <<"j", "a", "n", "e", " ", "d", "o", "e">>
    [] t = "jan lee" -> <<"j", "a", "n", " ", "l", "e", "e">>
    [] t = "bo" -> <<"b", "o">>
    [] t = "cy" -> <<"c", "y">>
    [] t = "amy" -> <<"a", "m", "y">>
    [] t = "jane" -> <<"j", "a", "n", "e">>
    [] t = "jan le" -> <<"j", "a", "n", " ", "l", "e">>
    [] t = "zz" -> <<"z", "z">>
    [] t = "bob" -> <<"b", "o", "b">>
    [] t = "by" -> <<"b", "y">>
    [] t = "an" -> <<"a", "n">>
    [] OTHER -> <<>>

Min2(a, b) == IF a <= b THEN a ELSE b

\* js-levenshtein: the edit distance of two character sequences, computed
\* row by row; a row holds the distances of a prefix of a to every prefix of b
RECURSIVE FillRow(_, _, _, _)
FillRow(prev, ch, b, row) ==
  IF Len(row) = Len(b) + 1 THEN row
  ELSE LET j == Len(row) IN
       FillRow(prev, ch, b,
               Append(row, Min2(Min2(prev[j + 1] + 1, row[j] + 1),
                                prev[j] + (IF b[j] = ch THEN 0 ELSE 1))))

RECURSIVE LevRows(_, _, _)
LevRows(a, b, prev) ==
  IF a = <<>> THEN prev[Len(b) + 1]
  ELSE LevRows(Tail(a), b, FillRow(prev, Head(a), b, <<prev[1] + 1>>))

Levenshtein(a, b) == LevRows(a, b, [j \in 1..(Len(b) + 1) |-> j - 1])

\* String.prototype.includes on character sequences
Includes(a, q) == \E i \in 0..(Len(a) - Len(q)) : SubSeq(a, i + 1, i + Len(q)) = q

\* the initial bestScore
Infinity == 999

\* a variant that starts from a best score of 3, so that only an agent
\* within two edits is kept
RECURSIVE BestLoop_CloseOnly(_, _)
BestLoop_CloseOnly(agents, input) ==
  IF agents = <<>> THEN [best |-> None, bestScore |-> 3]
  ELSE LET prev == BestLoop_CloseOnly(SubSeq(agents, 1, Len(agents) - 1), input)
           a == agents[Len(agents)]
           score == Levenshtein(Chars(Lower(a)), Chars(input)) IN
       IF score < prev.bestScore THEN [best |-> a, bestScore |-> score] ELSE prev

\* a variant that keeps the last agent of least distance
RECURSIVE BestLoop_LastOnTies(_, _)
BestLoop_LastOnTies(agents, input) ==
  IF agents = <<>> THEN [best |-> None, bestScore |-> Infinity]
  ELSE LET prev == BestLoop_LastOnTies(SubSeq(agents, 1, Len(agents) - 1), input)
           a == agents[Len(agents)]
           score == Levenshtein(Chars(Lower(a)), Chars(input)) IN
       IF score <= prev.bestScore THEN [best |-> a, bestScore |-> score] ELSE prev

\* the for loop over agents: the first agent of least distance and its score
RECURSIVE BestLoop(_, _)
BestLoop(agents, input) ==
  IF agents = <<>> THEN [best |-> None, bestScore |-> Infinity]
  ELSE LET prev == BestLoop(SubSeq(agents, 1, Len(agents) - 1), input)
           a == agents[Len(agents)]
           score == Levenshtein(Chars(Lower(a)), Chars(input)) IN
       IF score < prev.bestScore THEN [best |-> a, bestScore |-> score] ELSE prev

\* agents.find(a => a.toLowerCase().includes(input))
SubstringMatch(agents, input) ==
  LET hits == SelectSeq(agents, LAMBDA a : Includes(Chars(Lower(a)), Chars(input)))
  IN IF hits = <<>> THEN None ELSE hits[1]

\* a variant that returns the query itself when the loop found no agent
BestAgentMatch_FallsBackToInput(agents, input) ==
  LET b == BestLoop(agents, input)
      sub == SubstringMatch(agents, input) IN
  IF sub # None /\ b.bestScore > 2 THEN sub
  ELSE IF b.best = None THEN input ELSE b.best

\* (substringMatch && bestScore > 2) ? substringMatch : best
BestAgentMatch(agents, input) ==
  LET b == BestLoop(agents, input)
      sub == SubstringMatch(agents, input) IN
  IF sub # None /\ b.bestScore > 2 THEN sub ELSE b.best

\* the text after /agent ("": none)
AgentQueries == {"", "jane", "zz"}

CmdAgent(c, query) ==
  /\ Tick
  /\ IF ~session[c].exists THEN GuardRestart(c, "agent_cmd", <<query>>)
     ELSE LET sess == session[c]
              input == Lower(query)
              agents == AgentsOf(sess.rows, sess.selectedTeam)
              agent == BestAgentMatch(agents, input)
              say(m) == last' = Ev(c, "agent_cmd", <<query>>, <<m>>, <<>>, FALSE, TRUE)
          IN
          /\ UNCHANGED store
          /\ IF sess.mode # "chat" \/ sess.rows = None \/ sess.selectedTeam = None
             THEN say(Msg("only_chat_mode_after_team"))
             ELSE IF agents = <<>> THEN say(Msg("no_agents_for_team"))
             ELSE IF input = "" THEN say(MsgL("agent_menu", sess.selectedTeam, 0, agents))
             ELSE IF agent = None THEN say(MsgT("no_agent_matching", input))
             ELSE say(StatsMsg(agent, sess.dateStr,
                               AgentRows(sess.rows, sess.selectedTeam, agent)))

\* ---------------------------------------------------------------- /summary
\* the date `new Date()` gives while the model runs
Today == <<2025, 7, 2>>

\* a variant that falls back to today's date
ParseDateInput_DefaultsToToday(input) ==
  LET txt == Lower(input) IN
  CASE txt = "today" -> Today
    [] txt = "yesterday" -> <<2025, 7, 1>>
    [] txt = "2025-07-01" -> <<2025, 7, 1>>
    [] txt = "7/3/2025" -> <<2025, 7, 3>>
    [] OTHER -> Today

\* parseDateInput: a date, or <<>> for null
ParseDateInput(input) ==
  LET txt == Lower(input) IN
  CASE txt = "today" -> Today
    [] txt = "yesterday" -> <<2025, 7, 1>>
    [] txt = "2025-07-01" -> <<2025, 7, 1>>
    [] txt = "7/3/2025" -> <<2025, 7, 3>>
    [] OTHER -> <<>>

\* the words after /summary
SummaryArgs == {<<"today">>, <<"2025-07-01", "Sales">>, <<"TODAY", "Nope">>,
                <<"soon", "Sales">>}

\* rows.slice(1).filter(r => (r[6] || '').toString() === team)
SummaryRows(id, team) ==
  SelectSeq(DataRows(id),
            LAMBDA r : (IF Cell(r, 6) = Undef THEN "" ELSE Cell(r, 6)) = team)

\* dataRows.reduce(...): Object.entries of the per-agent counts, in first-seen order
AgentCounts(rows) ==
  LET names == [i \in 1..Len(rows) |->
                  IF Cell(rows[i], 5) = Undef THEN "Unknown" ELSE Cell(rows[i], 5)]
      keys == Distinct(names) IN
  [k \in 1..Len(keys) |->
     <<keys[k], Cardinality({i \in 1..Len(names) : names[i] = keys[k]})>>]

\* a variant that leaves the entries in first-seen order
SortByCountDesc_Unsorted(es) == es

\* .sort((a, b) => b[1] - a[1]): stable, by non-increasing count
RECURSIVE SortByCountDesc(_)
SortByCountDesc(es) ==
  IF es = <<>> THEN <<>>
  ELSE LET init == SortByCountDesc(SubSeq(es, 1, Len(es) - 1))
           e == es[Len(es)]
           k == Cardinality({i \in 1..Len(init) : init[i][2] >= e[2]}) IN
       SubSeq(init, 1, k) \o <<e>> \o SubSeq(init, k + 1, Len(init))

CmdSummary(c, parts) ==
  /\ Tick
  /\ IF ~session[c].exists THEN GuardRestart(c, "summary", parts)
     ELSE IF Len(parts) < 2
     THEN /\ last' = Ev(c, "summary", parts, <<Msg("summary_usage")>>, <<>>, FALSE, TRUE)
          /\ UNCHANGED store
     ELSE LET rawDate == parts[1]
              team == parts[2]
              dateObj == ParseDateInput(rawDate)
              creds == flyfoneCreds[c] IN
          IF dateObj = <<>>
          THEN /\ last' = Ev(c, "summary", parts, <<MsgT("date_not_understood", rawDate)>>,
                             <<>>, FALSE, TRUE)
               /\ UNCHANGED store
          ELSE IF ~creds.exists
          THEN /\ last' = Ev(c, "summary", parts, <<Msg("fetch_once_first")>>, <<>>, FALSE, TRUE)
               /\ UNCHANGED store
          ELSE \E dn \in DownloadNets :
               LET dateStr == FormatDate(dateObj)
                   r == DownloadFlyfoneReport(c, dateStr, creds.email, creds.pass, dn[1], dn[2])
                   first == MsgD("loading_summary", team, dateStr, 0, <<>>)
                   dataRows == SummaryRows(r.rows, team) IN
               /\ cookies' = [cookies EXCEPT ![c] = r.jar]
               /\ portalValid' = [portalValid EXCEPT ![c] = r.valid]
               /\ UNCHANGED <<session, flyfoneCreds, refreshToken, sheetMap, sheetData>>
               /\ IF ~r.ok
                  THEN last' = EvL(c, "summary", parts, <<first, MsgT("error_fetching", r.err)>>,
                                   r, FALSE)
                  ELSE IF dataRows = <<>>
                  THEN last' = EvL(c, "summary", parts,
                                   <<first, MsgD("no_calls", team, dateStr, 0, <<>>)>>, r, FALSE)
                  ELSE last' = EvL(c, "summary", parts,
                                   <<first, MsgD("summary", team, dateStr, 0,
                                                 SortByCountDesc(AgentCounts(dataRows)))>>,
                                   r, FALSE)

\* ------------------------------------------------------- sheet-mode export
\* lowercased team keys carried by the team buttons of the sheet flow
TeamKeyButtons == {"sales"}

CbTeam(c, key) ==
  /\ Tick
  /\ IF ~session[c].exists THEN GuardRestart(c, "team", <<key>>)
     ELSE /\ session' = [session EXCEPT ![c] = [session[c] EXCEPT !.selectedTeam = key]]
          /\ last' = Ev(c, "team", <<key>>, <<Msg("overwrite_or_append")>>, <<>>, FALSE, TRUE)
          /\ UNCHANGED <<flyfoneCreds, cookies, portalValid, refreshToken, sheetMap, sheetData>>

\* the fixed header written first
SheetHeader ==
  <<"Caller", "Team", "Callee", "Status", "Duration (s)", "Talktime (s)", "Hangup By",
    "Call Date", "Call Time", "End Time">>

\* rows.slice(1).filter(r => r[6]?.toString().toLowerCase() === selectedTeam):
\* an empty team cell gives undefined, which equals an unset selectedTeam
SheetFiltered(id, selectedTeam) ==
  SelectSeq(DataRows(id),
            LAMBDA r : IF Cell(r, 6) = Undef THEN selectedTeam = None
                       ELSE Lower(Cell(r, 6)) = selectedTeam)

\* [r[5],r[6],r[7],r[8],r[9],r[10],r[11],r[1],r[2],r[3]]
SheetRow(r) ==
  <<Cell(r, 5), Cell(r, 6), Cell(r, 7), Cell(r, 8), Cell(r, 9), Cell(r, 10), Cell(r, 11),
    Cell(r, 1), Cell(r, 2), Cell(r, 3)>>

\* the output array: the header, then the mapped rows
SheetOutput(id, selectedTeam) ==
  LET filtered == SheetFiltered(id, selectedTeam) IN
  <<SheetHeader>> \o [i \in 1..Len(filtered) |-> SheetRow(filtered[i])]

\* what the spreadsheet API does during one write: every call succeeds, the
\* first call fails, or (overwrite) clear succeeds and update fails
WriteNets == {"ok", "fail", "cleared"}

\* a variant whose overwrite does not clear the range first
WriteToSheet_OverwriteAppends(c, spreadsheetId, rows, overwrite, api) ==
  IF refreshToken[c] = None \/ spreadsheetId = None \/ api = "fail"
  THEN [ok |-> FALSE, data |-> sheetData]
  ELSE IF api = "cleared"
  THEN [ok |-> FALSE, data |-> sheetData]
  ELSE [ok |-> TRUE, data |-> [sheetData EXCEPT ![spreadsheetId] = @ \o rows]]

\* writeToSheet(chatId, spreadsheetId, rows, overwrite): the sheet contents
\* afterwards and whether it threw; a call without a refresh token or
\* without a spreadsheet id is refused by the API
WriteToSheet(c, spreadsheetId, rows, overwrite, api) ==
  IF refreshToken[c] = None \/ spreadsheetId = None \/ api = "fail"
  THEN [ok |-> FALSE, data |-> sheetData]
  ELSE IF overwrite
  THEN IF api = "cleared"
       THEN [ok |-> FALSE, data |-> [sheetData EXCEPT ![spreadsheetId] = <<>>]]
       ELSE [ok |-> TRUE, data |-> [sheetData EXCEPT ![spreadsheetId] = rows]]
  ELSE IF api = "cleared"
  THEN [ok |-> FALSE, data |-> sheetData]
  ELSE [ok |-> TRUE, data |-> [sheetData EXCEPT ![spreadsheetId] = @ \o rows]]

CbSheetMode(c, mode, api) ==
  /\ Tick
  /\ IF ~session[c].exists THEN GuardRestart(c, "sheetMode", <<mode>>)
     ELSE LET sess == session[c] IN
          IF sess.rows = None
          THEN /\ last' = Ev(c, "sheetMode", <<mode>>, <<>>, <<>>, TRUE, TRUE)
               /\ UNCHANGED store
          ELSE LET output == SheetOutput(sess.rows, sess.selectedTeam)
                   w == WriteToSheet(c, sess.sheetId, output, mode = "overwrite", api) IN
               /\ mode = "append" => \A sid \in SheetIds : Len(w.data[sid]) <= MaxSheetRows
               /\ sheetData' = w.data
               /\ last' = Ev(c, "sheetMode", <<mode>>,
                             IF w.ok
                             THEN <<MsgD("wrote", sess.selectedTeam, sess.dateStr,
                                         Len(output) - 1, output)>>
                             ELSE <<Msg("write_failed")>>,
                             <<>>, FALSE, TRUE)
               /\ UNCHANGED <<session, flyfoneCreds, cookies, portalValid, refreshToken, sheetMap>>

\* ------------------------------------------------------------ OAuth callback
\* what the redirect carries and what the token exchange answers
OAuthNets == {"badState", "tokenError", "noRefreshToken", "refreshToken"}

OAuthCallback(c, net) ==
  /\ Tick
  /\ IF net = "badState"
     THEN /\ last' = Ev(c, "oauth", <<net>>, <<Msg("http_400")>>, <<>>, FALSE, TRUE)
          /\ UNCHANGED store
     ELSE IF net = "tokenError"
     THEN /\ last' = Ev(c, "oauth", <<net>>, <<Msg("http_500")>>, <<>>, FALSE, TRUE)
          /\ UNCHANGED store
     ELSE /\ refreshToken' = [refreshToken EXCEPT ![c] =
                                IF net = "refreshToken" THEN "rt" ELSE @]
          /\ last' = Ev(c, "oauth", <<net>>, <<Msg("authorized"), Msg("http_200")>>,
                        <<>>, FALSE, TRUE)
          /\ UNCHANGED <<session, flyfoneCreds, cookies, portalValid, sheetMap, sheetData>>

\* Every handler, with a spreadsheet API that refuses every write: the
\* contents of the spreadsheet are followed under SpecSheet.
Next ==
  \E c \in chats :
    \/ CmdStart(c)
    \/ \E t \in Texts : MsgText(c, t)
    \/ SessionExpires(c)
    \/ PortalSessionExpires(c)
    \/ CbLinkSheetYes(c)
    \/ CbLinkSheetNo(c)
    \/ \E args \in ModeArgs : CmdMode(c, args)
    \/ CmdLogout(c)
    \/ \E input \in SheetInputs : CmdSheet(c, input)
    \/ CmdFetch(c)
    \/ \E team \in TeamButtons : CbChatTeam(c, team)
    \/ \E team \in TeamButtons, agent \in AgentButtons : CbChatAgent(c, team, agent)
    \/ CmdTeam(c)
    \/ \E q \in AgentQueries : CmdAgent(c, q)
    \/ \E parts \in SummaryArgs : CmdSummary(c, parts)
    \/ \E key \in TeamKeyButtons : CbTeam(c, key)
    \/ \E mode \in {"overwrite", "append"} : CbSheetMode(c, mode, "fail")
    \/ \E net \in OAuthNets : OAuthCallback(c, net)
    \/ \E d \in CalDates : CalendarSelect(c, d)

Spec == Init /\ [][Next]_vars

SpecTwo == InitTwo /\ [][Next]_vars

\* The sheet flow with a spreadsheet API that answers: log in, link and
\* authorize a spreadsheet, fetch a date, pick a team, write.
NextSheet ==
  \E c \in chats :
    \/ CmdStart(c)
    \/ \E t \in Texts : MsgText(c, t)
    \/ SessionExpires(c)
    \/ PortalSessionExpires(c)
    \/ CbLinkSheetYes(c)
    \/ CmdLogout(c)
    \/ \E input \in SheetInputs : CmdSheet(c, input)
    \/ CmdFetch(c)
    \/ \E team \in TeamButtons : CbChatTeam(c, team)
    \/ \E key \in TeamKeyButtons : CbTeam(c, key)
    \/ \E mode \in {"overwrite", "append"}, api \in WriteNets : CbSheetMode(c, mode, api)
    \/ \E net \in OAuthNets : OAuthCallback(c, net)
    \/ \E d \in CalDates : CalendarSelect(c, d)

SpecSheet == Init /\ [][NextSheet]_vars

\* ------------------------------------------ the computations on their own
\* The reductions of the chat flow applied to inputs of every shape, apart
\* from the reports the portal holds; a behaviour applies one of them once.
MaxRows == 3
MaxAgents == 3

\* the status cells a row may carry
Statuses == {"ANSWER", "BUSY", " BUSY ", Undef}

\* the rows selected for an agent: up to MaxRows rows of any statuses
StatusRows ==
  UNION {[1..n -> {Row("1", "A", "T", st) : st \in Statuses}] : n \in 0..MaxRows}

\* agent names and lowercased, trimmed queries
AgentNames == {"Jane Doe", "Jan Lee", "Bo", "Bob", "Cy"}
Queries == {"jane", "jane doe", "zz", "bo", "by", "an"}

\* the agents of a team: up to MaxAgents distinct names in any order
AgentLists ==
  {as \in UNION {[1..n -> AgentNames] : n \in 0..MaxAgents} :
     \A i, j \in 1..Len(as) : i # j => as[i] # as[j]}

\* the counting of chat_agent and /agent applied to the selected rows
ApplyCountByStatus ==
  /\ last.op = "init"
  /\ \E rows \in StatusRows :
       last' = Ev(1, "countByStatus", rows,
                  <<MsgL("counts", None, Len(rows), CountByStatus(rows))>>,
                  <<>>, FALSE, TRUE)
  /\ UNCHANGED <<store, chats, budget, dispatch>>

\* the lookup of /agent applied to a list of agents and a query, and the
\* branch taken on its result (if (!agent) 'No agent found matching')
ApplyBestAgentMatch ==
  /\ last.op = "init"
  /\ \E agents \in AgentLists, input \in Queries :
       LET agent == BestAgentMatch(agents, input) IN
       last' = Ev(1, "bestAgentMatch", <<agents, input>>,
                  <<MsgT(IF agent = None THEN "no_agent_matching" ELSE "match", agent)>>,
                  <<>>, FALSE, TRUE)
  /\ UNCHANGED <<store, chats, budget, dispatch>>

NextPure == ApplyCountByStatus \/ ApplyBestAgentMatch

SpecPure == Init /\ [][NextPure]_vars

\* ------------------------------------------- handlers, await by await
\* bot.start() polls for updates and hands them to the middleware one at a
\* time: the next update is taken up when the handler of the one before has
\* returned or thrown. A handler runs from await to await; the store calls
\* of other code that are still on their way can take effect in between.
MaxUpdates == 3

\* the session a chat has once it logged in, chose chat mode, sent /fetch
\* and picked 2025-07-01
BrowsingSession ==
  [EmptyObj EXCEPT !.step = "chat_await_date", !.mode = "chat", !.connectSheet = "false",
                   !.rows = "R1", !.dateStr = "2025-07-01"]

\* every chat is at that point, nothing is being handled
InitDispatch ==
  /\ session = [c \in Chats |-> BrowsingSession]
  /\ flyfoneCreds = [c \in Chats |-> SaveFlyfoneCreds("ann", "pw")]
  /\ cookies = [c \in Chats |-> "jar"]
  /\ portalValid = [c \in Chats |-> TRUE]
  /\ refreshToken = [c \in Chats |-> None]
  /\ sheetMap = [c \in Chats |-> None]
  /\ sheetData = [s \in SheetIds |-> <<>>]
  /\ last = Ev(0, "init", <<>>, <<>>, <<>>, FALSE, FALSE)
  /\ chats = Chats
  /\ budget = MaxUpdates
  /\ queue = <<>>
  /\ running = Idle
  /\ inflight = {}

\* the updates a chat may send here
Updates(c) ==
  {[chat |-> c, op |-> "chat_team", arg |-> <<"Sales">>],
   [chat |-> c, op |-> "mode", arg |-> <<"sheet">>],
   [chat |-> c, op |-> "logout", arg |-> <<>>],
   [chat |-> c, op |-> "calendar", arg |-> <<<<2025, 7, 2>>>>]}

\* getUpdates delivers one more update
Poll ==
  /\ budget > 0
  /\ budget' = budget - 1
  /\ \E c \in chats : \E u \in Updates(c) : queue' = Append(queue, u)
  /\ UNCHANGED <<store, last, chats, running, inflight>>

\* the loop takes the next update only when no handler is in progress
CanDispatch == running.pc = "idle" /\ queue # <<>>

Dispatch ==
  /\ CanDispatch
  /\ running' = [Idle EXCEPT !.chat = Head(queue).chat, !.op = Head(queue).op,
                             !.arg = Head(queue).arg, !.pc = "start"]
  /\ queue' = Tail(queue)
  /\ UNCHANGED <<store, last, chats, budget, inflight>>

\* the handler in progress returns or throws, leaving event e
Finish(e) ==
  /\ last' = e
  /\ running' = Idle

\* the handler in progress moves on to its next await
Goto(r) ==
  /\ running' = r
  /\ last' = last

\* a variant that updates the row when there is one and inserts nothing
SaveSession_UpdateOnly(stored, obj) == IF stored.exists THEN obj ELSE stored

\* saveSession: the upsert replaces the stored row by the object given
SaveSession(stored, obj) == obj

\* event e of a handler that persists the session now, from the row it
\* loaded at an earlier await
Persisted(e) == [e EXCEPT !.stale = session[running.chat] # running.sess]

\* the store calls /logout starts before it throws on deleteSheet
LogoutDeletions(c) == {<<c, "creds">>, <<c, "token">>, <<c, "session">>, <<c, "cookies">>}

\* /logout: the four imported deletions are called, none is awaited, and
\* the handler ends on the ReferenceError
Logout ==
  /\ running.pc = "start" /\ running.op = "logout"
  /\ inflight' = inflight \cup LogoutDeletions(running.chat)
  /\ Finish(Ev(running.chat, "logout", <<>>, <<>>, <<>>, TRUE, TRUE))
  /\ UNCHANGED <<store, chats, budget, queue>>

\* one of the deletions on its way reaches the store
Lands ==
  \E x \in inflight :
    /\ inflight' = inflight \ {x}
    /\ flyfoneCreds' = IF x[2] = "creds" THEN [flyfoneCreds EXCEPT ![x[1]] = NoCreds]
                       ELSE flyfoneCreds
    /\ refreshToken' = IF x[2] = "token" THEN [refreshToken EXCEPT ![x[1]] = None]
                       ELSE refreshToken
    /\ session' = IF x[2] = "session" THEN [session EXCEPT ![x[1]] = NoSession]
                  ELSE session
    /\ cookies' = IF x[2] = "cookies" THEN [cookies EXCEPT ![x[1]] = None] ELSE cookies
    /\ UNCHANGED <<portalValid, sheetMap, sheetData, last, chats, budget, queue, running>>

\* withSessionGuard around chat_team: `const sess = await getSession(chatId)`
ChatTeamGuard ==
  /\ running.pc = "start" /\ running.op = "chat_team"
  /\ IF ~session[running.chat].exists
     THEN /\ session' = [session EXCEPT ![running.chat] = NoSession]
          /\ Finish(Ev(running.chat, "chat_team", running.arg,
                       <<Msg("session_expired"), Msg("mode_prompt")>>, <<>>, FALSE, FALSE))
     ELSE /\ session' = session
          /\ Goto([running EXCEPT !.pc = "read"])
  /\ UNCHANGED <<flyfoneCreds, cookies, portalValid, refreshToken, sheetMap, sheetData,
                 chats, budget, queue, inflight>>

\* the wrapped handler: `const { rows, dateStr } = await getSession(chatId)`;
\* destructuring null is a TypeError
ChatTeamRead ==
  /\ running.pc = "read" /\ running.op = "chat_team"
  /\ IF ~session[running.chat].exists
     THEN Finish(Ev(running.chat, "chat_team", running.arg, <<>>, <<>>, TRUE, TRUE))
     ELSE Goto([running EXCEPT !.pc = "load", !.rows = session[running.chat].rows])
  /\ UNCHANGED <<store, chats, budget, queue, inflight>>

\* `await getSession(chatId)` inside the argument of saveSession, in
\* chat_team and in /mode
SessionLoad ==
  /\ running.pc = "load"
  /\ Goto([running EXCEPT !.pc = "persist", !.sess = session[running.chat]])
  /\ UNCHANGED <<store, chats, budget, queue, inflight>>

\* what chat_team passes to saveSession
TeamUpdate(loaded, team) == [OrEmpty(loaded) EXCEPT !.selectedTeam = team]

\* saveSession of chat_team, then the agent keyboard from rows
ChatTeamPersist ==
  /\ running.pc = "persist" /\ running.op = "chat_team"
  /\ session' = [session EXCEPT ![running.chat] =
                   SaveSession(session[running.chat], TeamUpdate(running.sess, running.arg[1]))]
  /\ IF running.rows = None
     THEN Finish(Persisted(Ev(running.chat, "chat_team", running.arg, <<>>, <<>>,
                              TRUE, TRUE)))
     ELSE Finish(Persisted(Ev(running.chat, "chat_team", running.arg,
                              <<MsgL("agent_menu", running.arg[1], 0,
                                     AgentsOf(running.rows, running.arg[1]))>>,
                              <<>>, FALSE, TRUE)))
  /\ UNCHANGED <<flyfoneCreds, cookies, portalValid, refreshToken, sheetMap, sheetData,
                 chats, budget, queue, inflight>>

\* /mode sheet: `const creds = await getFlyfoneCreds(chatId)`
ModeCreds ==
  /\ running.pc = "start" /\ running.op = "mode"
  /\ IF ~flyfoneCreds[running.chat].exists
     THEN Finish(Ev(running.chat, "mode", running.arg, <<Msg("not_logged_in")>>,
                    <<>>, FALSE, TRUE))
     ELSE Goto([running EXCEPT !.pc = "load"])
  /\ UNCHANGED <<store, chats, budget, queue, inflight>>

\* what /mode sheet passes to saveSession
ModeUpdate(loaded) == [OrEmpty(loaded) EXCEPT !.mode = "sheet", !.connectSheet = "true"]

\* saveSession of /mode sheet, then the confirmation
ModePersist ==
  /\ running.pc = "persist" /\ running.op = "mode"
  /\ session' = [session EXCEPT ![running.chat] =
                   SaveSession(session[running.chat], ModeUpdate(running.sess))]
  /\ Finish(Persisted(Ev(running.chat, "mode", running.arg, <<Msg("sheet_mode_enabled")>>,
                         <<>>, FALSE, TRUE)))
  /\ UNCHANGED <<flyfoneCreds, cookies, portalValid, refreshToken, sheetMap, sheetData,
                 chats, budget, queue, inflight>>

\* a date-picker selection: the predicates of the two bot.filter
CalFilter ==
  /\ running.pc = "start" /\ running.op = "calendar"
  /\ IF ~SheetCalendarFilter(running.chat) /\ ChatCalendarFilter(running.chat)
     THEN Goto([running EXCEPT !.pc = "handler"])
     ELSE Finish(Ev(running.chat, "calendar", <<>>, <<>>, <<>>, FALSE, FALSE))
  /\ UNCHANGED <<store, chats, budget, queue, inflight>>

\* the chat calendar handler: `const sess = await getSession(chatId)`
CalSession ==
  /\ running.pc = "handler" /\ running.op = "calendar"
  /\ Goto([running EXCEPT !.pc = "creds", !.sess = session[running.chat]])
  /\ UNCHANGED <<store, chats, budget, queue, inflight>>

\* `const { email, pass } = await getFlyfoneCreds(chatId)`, after the
\* un-awaited 'Fetching calls' message; destructuring null is a TypeError
CalCreds ==
  /\ running.pc = "creds" /\ running.op = "calendar"
  /\ IF ~flyfoneCreds[running.chat].exists
     THEN Finish(Ev(running.chat, "calendar", running.arg,
                    <<MsgT("fetching", FormatDate(running.arg[1]))>>, <<>>, TRUE, TRUE))
     ELSE Goto([running EXCEPT !.pc = "cookies", !.email = flyfoneCreds[running.chat].email,
                               !.pass = flyfoneCreds[running.chat].pass])
  /\ UNCHANGED <<store, chats, budget, queue, inflight>>

\* `const jar = await loadCookies(chatId)`; the requests of
\* downloadFlyfoneReport go out next and the handler waits for the portal
CalCookies ==
  /\ running.pc = "cookies" /\ running.op = "calendar"
  /\ Goto([running EXCEPT !.pc = "download", !.jar = cookies[running.chat]])
  /\ UNCHANGED <<store, chats, budget, queue, inflight>>

\* how downloadFlyfoneReport ends for the handler in progress: the probe is
\* answered from the jar the handler loaded
HandlerDownload(net, exp) ==
  LET c == running.chat
      ds == FormatDate(running.arg[1])
  IN IF running.jar # None /\ portalValid[c]
     THEN ExportReport(ProbeSucceeded(c) @@ [page |-> None, post |-> NoPost], ds, exp)
     ELSE DownloadFlyfoneReport(c, ds, running.email, running.pass, net, exp)

\* the portal answers, at whatever time it does: the rest of the chat
\* calendar handler
PortalAnswers ==
  /\ running.pc = "download" /\ running.op = "calendar"
  /\ \E dn \in DownloadNets :
       LET c == running.chat
           ds == FormatDate(running.arg[1])
           r == HandlerDownload(dn[1], dn[2])
           first == MsgT("fetching", ds)
       IN
       /\ cookies' = [cookies EXCEPT ![c] = r.jar]
       /\ portalValid' = [portalValid EXCEPT ![c] = r.valid]
       /\ IF ~r.ok
          THEN /\ session' = session
               /\ Finish(EvL(c, "calendar", running.arg, <<first>>, r, TRUE))
          ELSE /\ session' = [session EXCEPT ![c] =
                                SaveSession(session[c],
                                            WithReport(OrEmpty(running.sess), r.rows, ds))]
               /\ Finish(Persisted(EvL(c, "calendar", running.arg,
                                       <<first, MsgL("chat_team_menu", None, 0,
                                                     ChatTeams(r.rows))>>,
                                       r, FALSE)))
  /\ UNCHANGED <<flyfoneCreds, refreshToken, sheetMap, sheetData, chats, budget, queue,
                 inflight>>

NextDispatch ==
  \/ Poll
  \/ Dispatch
  \/ Logout
  \/ Lands
  \/ ChatTeamGuard
  \/ ChatTeamRead
  \/ SessionLoad
  \/ ChatTeamPersist
  \/ ModeCreds
  \/ ModePersist
  \/ CalFilter
  \/ CalSession
  \/ CalCreds
  \/ CalCookies
  \/ PortalAnswers

SpecDispatch == InitDispatch /\ [][NextDispatch]_vars

\* ======================================================================
\* Properties. An action property speaks of one step: unprimed variables
\* are the store when the event arrived, last' is the event handled.
\* ======================================================================
GuardedOps == {"chat_team", "chat_agent", "team", "sheetMode", "team_cmd", "agent_cmd", "summary"}

UnguardedOps == {"start", "mode", "sheet", "fetch", "linkSheet:yes", "linkSheet:no",
                 "text", "calendar"}

DateSteps == {"sheet_await_date", "chat_await_date"}

\* C1: when an event of a guarded handler (chat_team, chat_agent, team,
\* sheetMode, /team, /agent, /summary) arrives while the chat has no session,
\* the wrapped body is not entered, nothing is raised, the session is absent
\* afterwards and the mode-choice prompt is sent.
C1_SessionGuard ==
  [][\A c \in Chats :
       (last'.chat = c /\ last'.op \in GuardedOps /\ ~session[c].exists)
       => /\ ~last'.body
          /\ ~last'.raised
          /\ ~session'[c].exists
          /\ "mode_prompt" \in ReplyKinds(last')]_vars

\* a guarded event was answered by the restart while the chat has a stored
\* credential and no session
C1_Witness ==
  /\ last.op \in GuardedOps /\ ~last.body
  /\ "mode_prompt" \in ReplyKinds(last)
  /\ ~session[last.chat].exists
  /\ flyfoneCreds[last.chat].exists

\* C2: an event of a handler outside the session guard (/start, /mode,
\* /sheet, /fetch, linkSheet:yes, linkSheet:no, free text, date selection)
\* that arrives while the chat has no session raises nothing, whatever
\* credential and linked sheet are stored.
C2_UnguardedTolerateNoSession ==
  [][\A c \in Chats :
       (last'.chat = c /\ last'.op \in UnguardedOps /\ ~session[c].exists)
       => ~last'.raised]_vars

\* C3: a text at step await_pass for which ensureLoggedIn succeeds stores
\* the credential {session email, typed password}, sets the step to
\* await_mode and keeps the email in the session.
C3_PasswordSuccess ==
  [][\A c \in Chats :
       (/\ last'.chat = c /\ last'.op = "text" /\ last'.login = "ok"
        /\ session[c].exists /\ session[c].step = "await_pass")
       => /\ flyfoneCreds'[c] = [exists |-> TRUE, email |-> session[c].email,
                                 pass |-> Trim(last'.arg[1])]
          /\ session'[c].exists
          /\ session'[c].step = "await_mode"
          /\ session'[c].email = session[c].email]_vars

\* a password was accepted by a fresh login (the POST was sent)
C3_Witness ==
  /\ last.op = "text" /\ last.login = "ok"
  /\ "POST /login" \in {last.reqs[i] : i \in 1..Len(last.reqs)}
  /\ flyfoneCreds[last.chat] = [exists |-> TRUE, email |-> "ann", pass |-> "pw"]
  /\ session[last.chat].step = "await_mode"

\* C4: a text at step await_pass that the portal rejects stores no
\* credential, leaves the persisted cookies as they were and returns the
\* step to await_email; and a credential only ever appears or changes in a
\* step whose login attempt succeeded.
C4_PasswordFailure ==
  [][\A c \in Chats :
       /\ (/\ last'.chat = c /\ last'.op = "text"
           /\ last'.login = "Incorrect email or password"
           /\ session[c].exists /\ session[c].step = "await_pass")
          => /\ ~flyfoneCreds'[c].exists
             /\ cookies'[c] = cookies[c]
             /\ session'[c].exists
             /\ session'[c].step = "await_email"
       /\ (flyfoneCreds'[c].exists /\ flyfoneCreds'[c] # flyfoneCreds[c])
          => /\ last'.chat = c /\ last'.op = "text" /\ last'.login = "ok"
             /\ session[c].step = "await_pass"]_vars

\* the portal rejected a password: the chat is asked for the email again
C4_Witness ==
  /\ last.op = "text" /\ last.login = "Incorrect email or password"
  /\ session[last.chat].step = "await_email"
  /\ ~flyfoneCreds[last.chat].exists
  /\ cookies[last.chat] = None

\* C5: /start without a stored credential leaves exactly {step: await_email}
\* as the session and asks for the email; the next text moves the step to
\* await_pass and issues no portal request.
C5_StartResets ==
  [][\A c \in Chats :
       /\ (last'.chat = c /\ last'.op = "start" /\ ~flyfoneCreds[c].exists)
          => /\ session'[c] = [EmptyObj EXCEPT !.step = "await_email"]
             /\ ReplyKinds(last') = {"ask_email"}
       /\ (/\ last'.chat = c /\ last'.op = "text"
           /\ session[c] = [EmptyObj EXCEPT !.step = "await_email"])
          => /\ session'[c].step = "await_pass"
             /\ last'.reqs = <<>>]_vars

\* /start has just reset a chat that has no credential
C5_Witness ==
  /\ last.op = "start"
  /\ ~flyfoneCreds[last.chat].exists
  /\ session[last.chat] = [EmptyObj EXCEPT !.step = "await_email"]

\* C6: after /start for a chat with a stored credential a session is
\* persisted and its step is the mode-choice step.
C6_StartModeChoice ==
  (last.op = "start" /\ flyfoneCreds[last.chat].exists)
  => (session[last.chat].exists /\ session[last.chat].step = "await_mode")

C8_SheetBranchesOnToken ==
  (last.op = "sheet" /\ ReplyKinds(last) \subseteq {"sheet_linked", "authorize_prompt"})
  => /\ session[last.chat].sheetId = ParseSheetId(last.arg[1])
     /\ sheetMap[last.chat] = ParseSheetId(last.arg[1])
     /\ refreshToken[last.chat] # None => ReplyKinds(last) = {"sheet_linked"}
     /\ refreshToken[last.chat] = None => ReplyKinds(last) = {"authorize_prompt"}

\* C9: /fetch changes the session only if a credential is stored, a mode is
\* determined and, in sheet mode, a sheet is linked, and then only by setting
\* the step: sheet_await_date in sheet mode, chat_await_date in chat mode.
\* When a credential, a mode or the linked sheet is missing the session is
\* left as it was.
C9_FetchConditions ==
  [][\A c \in Chats :
       (last'.chat = c /\ last'.op = "fetch")
       => LET s == session[c]
              mode == IF s.exists /\ s.mode # None THEN s.mode
                      ELSE IF sheetMap[c] # None THEN "sheet" ELSE None
              refused == \/ ~flyfoneCreds[c].exists
                         \/ mode = None
                         \/ (mode = "sheet" /\ sheetMap[c] = None)
          IN /\ refused => (session'[c] = s /\ ~last'.raised)
             /\ (session'[c] # s \/ "choose_date" \in ReplyKinds(last'))
                => /\ ~refused
                   /\ s.exists
                   /\ session'[c] = [s EXCEPT !.step = IF mode = "sheet"
                                                       THEN "sheet_await_date"
                                                       ELSE "chat_await_date"]]_vars

\* /fetch has started the sheet flow
C9_Witness ==
  /\ last.op = "fetch" /\ "choose_date" \in ReplyKinds(last)
  /\ session[last.chat].step = "sheet_await_date"
  /\ sheetMap[last.chat] # None

\* C10: after a date selection whose download succeeded the session holds
\* the rows and the selected date, and the step is no longer a
\* date-selection step.
C10_DateSelectionAdvances ==
  (last.op = "calendar" /\ last.login = "ok")
  => /\ session[last.chat].exists
     /\ session[last.chat].rows # None
     /\ session[last.chat].dateStr = FormatDate(last.arg[1])
     /\ session[last.chat].step \notin DateSteps

\* C11: a team, agent or write-mode button pressed while the session is not
\* where that button was issued (the session holds no report, the session's
\* mode is the other flow's, or the write-mode button comes before any team
\* was chosen) is rejected: session unchanged, nothing raised, no sheet write.
C11_StaleButtonRejected ==
  [][\A c \in Chats :
       LET s == session[c]
           op == last'.op
           stale == \/ s.rows = None
                    \/ (op \in {"team", "sheetMode"} /\ s.mode # "sheet")
                    \/ (op \in {"chat_team", "chat_agent"} /\ s.mode # "chat")
                    \/ (op = "sheetMode" /\ s.selectedTeam = None)
       IN (/\ last'.chat = c /\ s.exists
           /\ op \in {"team", "sheetMode", "chat_team", "chat_agent"}
           /\ stale)
          => /\ session'[c] = s
             /\ ~last'.raised
             /\ sheetData' = sheetData]_vars

\* C12: for every chat the persisted session has rows and dateStr both
\* present or both absent.
C12_RowsWithDate ==
  \A c \in Chats :
    session[c].exists => ((session[c].rows = None) <=> (session[c].dateStr = None))

\* a date selection failed after an earlier one had stored a report
C12_Witness ==
  /\ last.op = "calendar" /\ last.login \notin {None, "ok"}
  /\ session[last.chat].rows # None
  /\ session[last.chat].dateStr # None

\* the step names the handlers compare against and assign
DeclaredSteps ==
  {"await_email", "await_pass", "await_mode", "await_sheet_url",
   "sheet_await_date", "chat_await_date"}

\* C13: every persisted session has a step, and it is one of the declared
\* steps.
C13_StepDeclared ==
  \A c \in Chats : session[c].exists => session[c].step \in DeclaredSteps

\* the requests of the event handled last
Reqs(e) == {e.reqs[i] : i \in 1..Len(e.reqs)}

\* C14: when the download fails during a date selection, in either mode, the
\* handler raises nothing, replies with an error text, and leaves the
\* session (step, rows, dateStr) as it was.
C14_DownloadFailureCaught ==
  [][\A c \in Chats :
       (last'.chat = c /\ last'.op = "calendar" /\ last'.login \notin {None, "ok"})
       => /\ ~last'.raised
          /\ ReplyKinds(last') \cap {"error", "incorrect_fetch_again"} # {}
          /\ session'[c] = session[c]]_vars

\* C15: in the password step a failure of ensureLoggedIn other than wrong
\* credentials does not send the chat back to email entry and is not
\* reported as invalid credentials.
C15_LoginFailureKinds ==
  (/\ last.op = "text"
   /\ last.login \notin {None, "ok", "Incorrect email or password"})
  => /\ session[last.chat].step # "await_email"
     /\ "credentials_invalid" \notin ReplyKinds(last)

\* C16: a call of ensureLoggedIn that directly follows a successful one for
\* the same chat requests the dashboard only (no login page, no login POST)
\* and leaves the persisted cookies as they are.
C16_EnsureLoggedInIdempotent ==
  [][\A c \in Chats :
       (/\ last.chat = c /\ last.login = "ok"
        /\ last'.chat = c /\ last'.login # None)
       => /\ last'.reqs[1] = "GET /dashboard"
          /\ Reqs(last') \cap {"GET /login", "POST /login"} = {}
          /\ cookies'[c] = cookies[c]]_vars

\* a call was answered by the probe alone, from cookies saved earlier
C16_Witness ==
  /\ last.login = "ok"
  /\ last.reqs[1] = "GET /dashboard"
  /\ "POST /login" \notin Reqs(last)
  /\ cookies[last.chat] # None

\* C17: the persisted cookies of a chat change only in a step in which
\* ensureLoggedIn sent the login POST and was not stopped before saveCookies
\* returned, or in /logout, which deletes them.
C17_CookieWritePoint ==
  [][\A c \in Chats :
       cookies'[c] # cookies[c]
       => /\ last'.chat = c
          /\ \/ (last'.op = "logout" /\ cookies'[c] = None)
             \/ /\ "POST /login" \in Reqs(last')
                /\ last'.login \notin {None, "login page", "CSRF token not found", "login post",
                                       "Incorrect email or password", "save cookies"}
                /\ cookies'[c] # None]_vars

\* a login has just written the cookies of a chat that had none
C17_Witness ==
  /\ "POST /login" \in Reqs(last)
  /\ last.login = "ok"
  /\ cookies[last.chat] = "jar"
  /\ portalValid[last.chat]

\* C19: after /logout the chat has no session, no portal credential, no
\* cookies, no refresh token and no linked sheet, and the logged-out
\* confirmation was sent.
C19_LogoutClearsAll ==
  last.op = "logout"
  => /\ ~session[last.chat].exists
     /\ ~flyfoneCreds[last.chat].exists
     /\ cookies[last.chat] = None
     /\ refreshToken[last.chat] = None
     /\ sheetMap[last.chat] = None
     /\ "logged_out" \in ReplyKinds(last)
     /\ ~last.raised

\* C20: /summary with two arguments, a parseable date and a stored
\* credential runs the download, and when the download succeeds replies with
\* the summary or the no-calls message, at any step and with no session.
C20_SummaryStateless ==
  (/\ last.op = "summary"
   /\ Len(last.arg) = 2
   /\ ParseDateInput(last.arg[1]) # <<>>
   /\ flyfoneCreds[last.chat].exists)
  => /\ last.login # None
     /\ last.login = "ok" => ReplyKinds(last) \cap {"summary", "no_calls"} # {}

UnparseableDates == {"soon"}

C22_SummaryReply ==
  (last.op = "summary" /\ last.login = "ok") =>
    LET team == last.arg[2]
        rows == DataRows(PortalExport(FormatDate(ParseDateInput(last.arg[1]))))
        match == {i \in 1..Len(rows) : Cell(rows[i], 6) = team}
        agentOf(i) == IF Cell(rows[i], 5) = Undef THEN "Unknown" ELSE Cell(rows[i], 5)
        m == last.replies[Len(last.replies)]
        n == Len(m.list)
    IN /\ m.kind \in {"no_calls", "summary"}
       /\ (m.kind = "no_calls") <=> (match = {})
       /\ m.kind = "summary" =>
            /\ \A i, j \in 1..n : i # j => m.list[i][1] # m.list[j][1]
            /\ \A k \in match : \E i \in 1..n : m.list[i][1] = agentOf(k)
            /\ \A i \in 1..n :
                 /\ m.list[i][2] = Cardinality({k \in match : agentOf(k) = m.list[i][1]})
                 /\ m.list[i][2] >= 1
            /\ \A i \in 1..(n - 1) : m.list[i][2] >= m.list[i + 1][2]

\* a summary of two agents in which the agent seen later leads, and a
\* report row of the same team name in another case that is left out
C22_Witness ==
  /\ last.op = "summary" /\ last.login = "ok"
  /\ last.arg = <<"2025-07-01", "Sales">>
  /\ last.replies[2].kind = "summary"
  /\ last.replies[2].list = <<<<"Jane Doe", 2>>, <<"Jan Lee", 1>>>>

\* C23: the per-status counts partition the selected rows: every row is
\* counted under exactly one key (its trimmed status), a key's count is the
\* number of rows of that status, and the counts add up to the total.
C23_CountPartition ==
  last.op = "countByStatus" =>
    LET rows == last.arg
        counts == last.replies[1].list
        total == last.replies[1].n
        key(i) == Trim(Cell(rows[i], 8))
        sum[S \in SUBSET (DOMAIN counts)] ==
          IF S = {} THEN 0
          ELSE LET k == CHOOSE k \in S : TRUE IN counts[k] + sum[S \ {k}]
    IN /\ total = Len(rows)
       /\ \A i \in 1..Len(rows) : key(i) \in DOMAIN counts
       /\ \A k \in DOMAIN counts :
            counts[k] = Cardinality({i \in 1..Len(rows) : key(i) = k})
       /\ sum[DOMAIN counts] = total

\* three rows, two of one status once trimmed and one without a status
C23_Witness ==
  /\ last.op = "countByStatus"
  /\ Len(last.arg) = 3
  /\ DOMAIN last.replies[1].list = {"BUSY", Undef}
  /\ last.replies[1].list["BUSY"] = 2
  /\ Cell(last.arg[1], 8) = " BUSY "

\* C25: the agent lookup returns the first agent containing the query when
\* some agent contains it and the least edit distance over all agents is
\* above 2; otherwise the agent of least edit distance, the first of them
\* in list order, even when another agent contains the query.
C25_BestAgentMatchRule ==
  (last.op = "bestAgentMatch" /\ last.arg[1] # <<>>) =>
    LET agents == last.arg[1]
        input == last.arg[2]
        result == last.replies[1].text
        idx == 1..Len(agents)
        dist(i) == Levenshtein(Chars(Lower(agents[i])), Chars(input))
        has(i) == Includes(Chars(Lower(agents[i])), Chars(input))
        firstHas == CHOOSE i \in idx : has(i) /\ \A j \in 1..(i - 1) : ~has(j)
        firstMin == CHOOSE i \in idx :
                      /\ \A j \in idx : dist(i) <= dist(j)
                      /\ \A j \in 1..(i - 1) : dist(j) > dist(i)
    IN IF (\E i \in idx : has(i)) /\ (\A i \in idx : dist(i) > 2)
       THEN result = agents[firstHas]
       ELSE result = agents[firstMin]

\* "an" is part of "jane doe", yet "Bo", two edits away and the first of
\* the two nearest, is returned
C25_Witness ==
  /\ last.op = "bestAgentMatch"
  /\ last.arg = <<<<"Jane Doe", "Bo", "Cy">>, "an">>
  /\ last.replies[1].text = "Bo"

\* C24: the Calls number of the stats message sent for an agent button is
\* the number of data rows (the header left out) of the report cached for
\* the picked date whose team is the selected team and whose agent is the
\* selected agent.
C24_CallsNumber ==
  (last.op = "chat_agent" /\ last.replies # <<>> /\ last.replies[1].kind = "agent_stats") =>
    LET m == last.replies[1]
        sess == session[last.chat]
        report == ReportRows(PortalExport(m.date))
    IN /\ sess.rows = PortalExport(m.date)
       /\ m.n = Cardinality({i \in 2..Len(report) :
                               /\ Cell(report[i], 6) = last.arg[1]
                               /\ Cell(report[i], 5) = last.arg[2]})

\* the chat flow ended on Jane Doe of Sales, who has two of the five rows
C24_Witness ==
  /\ last.op = "chat_agent" /\ last.arg = <<"Sales", "Jane Doe">>
  /\ session[last.chat].mode = "chat"
  /\ session[last.chat].selectedTeam = "Sales"
  /\ last.replies # <<>>
  /\ last.replies[1].kind = "agent_stats"
  /\ last.replies[1].n = 2

\* C26: /agent in chat mode with a team selected of which the cached report
\* has no row: the lookup over no agents gives null, the handler does not
\* raise, the user gets a not-found message and the store (the session in
\* it) is as before.
C26_NoCandidates ==
  [][\A c \in Chats :
       (/\ last'.chat = c /\ last'.op = "agent_cmd"
        /\ session[c].exists /\ session[c].mode = "chat"
        /\ session[c].rows # None /\ session[c].selectedTeam # None
        /\ \A i \in 1..Len(DataRows(session[c].rows)) :
              Cell(DataRows(session[c].rows)[i], 6) # session[c].selectedTeam)
       => /\ BestAgentMatch(<<>>, Lower(last'.arg[1])) = None
          /\ ReplyKinds(last') \in {{"no_agents_for_team"}, {"no_agent_matching"}}
          /\ ~last'.raised
          /\ store' = store]_vars

\* /agent zz after the team Sales was selected on a report without Sales rows
C26_Witness ==
  /\ last.op = "agent_cmd" /\ last.arg = <<"zz">>
  /\ ReplyKinds(last) = {"no_agents_for_team"}
  /\ session[last.chat].selectedTeam = "Sales"
  /\ session[last.chat].rows = "R2"

\* C27: the team menu sent after a date was picked, in the chat flow and in
\* the sheet flow alike, lists the distinct team values of the report's
\* data rows once each in first-seen order, a missing team value listed as
\* the empty string.
C27_TeamMenus ==
  (last.op = "calendar" /\ last.login = "ok") =>
    LET rows == DataRows(PortalExport(FormatDate(last.arg[1])))
        teams == Distinct([i \in 1..Len(rows) |->
                             IF Cell(rows[i], 6) = Undef THEN "" ELSE Cell(rows[i], 6)])
    IN \A k \in 1..Len(last.replies) :
         last.replies[k].kind \in {"chat_team_menu", "sheet_team_menu"}
           => last.replies[k].list = teams

\* C28: the rows handed to the spreadsheet by a write that succeeded are the
\* fixed header followed by the rows of the cached report whose team matches
\* the selected team, in report order, each as caller (cell 0), team, callee,
\* status, duration, talktime, hangup-by, call date, call time, end time;
\* the number reported is the number of data rows written.
C28_RowsWritten ==
  (last.op = "sheetMode" /\ ReplyKinds(last) = {"wrote"}) =>
    LET sess == session[last.chat]
        m == last.replies[1]
        rows == SheetFiltered(sess.rows, sess.selectedTeam)
        record(r) == <<Cell(r, 0), Cell(r, 6), Cell(r, 7), Cell(r, 8), Cell(r, 9),
                       Cell(r, 10), Cell(r, 11), Cell(r, 1), Cell(r, 2), Cell(r, 3)>>
    IN /\ m.list = <<SheetHeader>> \o [i \in 1..Len(rows) |-> record(rows[i])]
       /\ m.n = Len(m.list) - 1

\* C29: once a write with overwrite has completed, the sheet holds exactly
\* the rows written, the header and then the N data rows in order, whatever
\* it held before.
C29_OverwriteRoundTrip ==
  (last.op = "sheetMode" /\ last.arg = <<"overwrite">> /\ ReplyKinds(last) = {"wrote"}) =>
    LET m == last.replies[1]
        sid == session[last.chat].sheetId
    IN /\ sid \in SheetIds
       /\ sheetData[sid] = m.list
       /\ Len(sheetData[sid]) = m.n + 1
       /\ sheetData[sid][1] = SheetHeader

\* an overwrite of the four rows of the team key "sales"
C29_Witness ==
  /\ last.op = "sheetMode" /\ last.arg = <<"overwrite">>
  /\ ReplyKinds(last) = {"wrote"}
  /\ last.replies[1].n = 4
  /\ Len(sheetData["sid1"]) = 5

\* C30: a write-mode choice that succeeded, pressed again for the same
\* request (same session, hence same cached report and selected team) and
\* succeeding again, leaves the sheet as the first press left it.
C30_WriteIdempotent ==
  [][\A c \in Chats :
       (/\ last.op = "sheetMode" /\ last.chat = c /\ ReplyKinds(last) = {"wrote"}
        /\ last'.op = "sheetMode" /\ last'.chat = c /\ ReplyKinds(last') = {"wrote"}
        /\ last'.arg = last.arg
        /\ session'[c] = session[c])
       => sheetData' = sheetData]_vars

\* C31: whenever the consent callback told the user they are authorized, a
\* refresh token is stored for the chat named in the state payload.
C31_AuthorizedHasToken ==
  (last.op = "oauth" /\ "authorized" \in ReplyKinds(last))
    => refreshToken[last.chat] # None

\* C35: a date-picker selection that arrives while the chat's persisted step
\* is neither sheet_await_date nor chat_await_date (no session included) is
\* not processed: no handler body runs, nothing is replied, no portal
\* request is issued and the store, the session in it, stays as it was.
C35_DateSelectionOnlyInDateStep ==
  [][\A c \in Chats :
       (/\ last'.chat = c /\ last'.op = "calendar"
        /\ session[c].step \notin DateSteps)
       => /\ ~last'.body
          /\ last'.replies = <<>>
          /\ last'.reqs = <<>>
          /\ last'.login = None
          /\ store' = store]_vars

\* a selection ignored for a chat that has a session, stored credentials and
\* a step other than the two date steps
C35_Witness ==
  /\ last.op = "calendar" /\ ~last.body
  /\ session[last.chat].exists
  /\ session[last.chat].step = "await_sheet_url"
  /\ flyfoneCreds[last.chat].exists

\* C36: within one ensureLoggedIn the login POST is the third request, after
\* a dashboard probe that failed and a login page that yielded a CSRF token,
\* and it carries that token; when the marker is absent nothing is posted;
\* when the POST is answered with the wrong-credentials text the persisted
\* cookies stay as they were.
C36_LoginOrder ==
  [][\A c \in Chats :
       (last'.chat = c /\ last'.login # None) =>
         LET e == last'
             posted == "POST /login" \in {e.reqs[i] : i \in 1..Len(e.reqs)}
         IN /\ posted =>
                 /\ ~DashboardProbe(c)
                 /\ Len(e.reqs) >= 3
                 /\ e.reqs[1] = "GET /dashboard"
                 /\ e.reqs[2] = "GET /login"
                 /\ e.reqs[3] = "POST /login"
                 /\ \A i \in 4..Len(e.reqs) : e.reqs[i] # "POST /login"
                 /\ e.page # None
                 /\ e.post.sent
                 /\ e.post.csrf_webcall = e.page
            /\ posted <=> e.post.sent
            /\ e.login = "CSRF token not found" =>
                 /\ e.page = None
                 /\ ~posted
            /\ e.login = "Incorrect email or password" =>
                 /\ posted
                 /\ cookies'[c] = cookies[c]]_vars

\* a login that posted the form with the token of the page and was refused
C36_Witness ==
  /\ last.login = "Incorrect email or password"
  /\ last.post.sent
  /\ last.post.csrf_webcall = "csrf-1"
  /\ last.page = "csrf-1"
  /\ cookies[last.chat] = None

\* C37: the text that arrives in the await_pass step, the portal password,
\* does not enter the session: no session field written by the handler holds
\* it, raw or trimmed; after a login that succeeded it is in the
\* portal-credential record, and the session holds the credential's email.
C37_PasswordNotInSession ==
  [][\A c \in Chats :
       (/\ last'.chat = c /\ last'.op = "text"
        /\ session[c].exists /\ session[c].step = "await_pass")
       => LET t == last'.arg[1] IN
          /\ session'[c].exists
          /\ \A f \in DOMAIN session'[c] \ {"exists"} :
               session'[c][f] # session[c][f] => session'[c][f] \notin {t, Trim(t)}
          /\ last'.login = "ok" =>
               /\ flyfoneCreds'[c].pass = Trim(t)
               /\ flyfoneCreds'[c].email = session'[c].email]_vars

\* the password " pw " was accepted: it is in the credential record, the
\* session holds the email
C37_Witness ==
  /\ last.op = "text" /\ last.arg = <<" pw ">> /\ last.login = "ok"
  /\ flyfoneCreds[last.chat].pass = "pw"
  /\ session[last.chat].email = "ann"
  /\ session[last.chat].step = "await_mode"

\* C38: pressing a mode-choice button (sheet or chat) changes only mode,
\* connectSheet and step of the persisted session; email, sheetId, rows,
\* dateStr and selectedTeam stay as they were.
C38_ModeChoiceKeepsFields ==
  [][\A c \in Chats :
       (/\ last'.chat = c /\ last'.op \in {"linkSheet:yes", "linkSheet:no"}
        /\ session[c].exists)
       => /\ session'[c].exists
          /\ \A f \in {"email", "sheetId", "rows", "dateStr", "selectedTeam"} :
               session'[c][f] = session[c][f]]_vars

\* C39: in every state a session at step sheet_await_date has mode sheet (or
\* no mode and a linked sheet), and a session at step chat_await_date has
\* mode chat, so a date selection runs the flow of the mode now selected.
C39_StepMatchesMode ==
  \A c \in Chats :
    /\ session[c].step = "sheet_await_date"
         => \/ session[c].mode = "sheet"
            \/ (session[c].mode = None /\ sheetMap[c] # None)
    /\ session[c].step = "chat_await_date" => session[c].mode = "chat"

C33_NoCrossChatBlocking ==
  (running.pc = "download" /\ queue # <<>> /\ Head(queue).chat # running.chat)
    => ENABLED Dispatch

\* C34: when the session row disappears after the guard found it and before
\* the wrapped handler reads it, the wrapped handler ends without raising.
C34_GuardSafeAgainstDeletion ==
  [][(running.op = "chat_team" /\ running.pc = "read"
        /\ ~session[running.chat].exists /\ running'.pc = "idle")
       => ~last'.raised]_vars

====
